---- MODULE Spec2Model ----
(***************************************************************************)
(* Model of the notify_server distribution subsystem of the chat           *)
(* repository: the Notification decoder (notify.rs), the listener task     *)
(* spawned by setup_pg_listener (notify.rs), the UserMap registry          *)
(* (lib.rs) and the per-connection SSE gateways that attach receivers to   *)
(* the per-user tokio broadcast senders stored in the registry.            *)
(***************************************************************************)
EXTENDS Integers, Sequences, FiniteSets, TLC

(* ------------------------------ bounds -------------------------------- *)
MaxUser == 2        \* user ids are 1..MaxUser
MaxLen == 2         \* longest member list (Vec<i64>) of a payload
MaxConn == 2        \* client connections opened during a run
MaxNotifs == 2      \* notifications the listener stream yields during a run
NumShards == 2      \* shards of the DashMap (fixed at construction)
MaxCalls == 2       \* signup requests (User::create calls) during a run
MaxEmail == 2       \* distinct emails the signup requests draw from
MaxWorkspace == 2   \* distinct workspace names the signup requests draw from

\* capacity of the per-user broadcast channel created by the gateway
Capacity == 1

Users == 1..MaxUser
NoChan == 0
NoUser == 0
NoResponse == 0

ToSet(s) == {s[i] : i \in DOMAIN s}
Last(s) == s[Len(s)]
Max(a, b) == IF a >= b THEN a ELSE b

(* ------------------------- payloads and events ------------------------ *)
\* Vec<i64> member lists; the ids are non-negative, where `as u64` keeps
\* the value, and collecting into a HashSet<u64> is ToSet
MemberLists == UNION {[1..n -> Users] : n \in 0..MaxLen}

\* Option<Chat>: a Chat is represented by its member list, the only field
\* the subsystem reads
None == [some |-> FALSE, members |-> <<>>]
Some(m) == [some |-> TRUE, members |-> m]
OptChats == {None} \cup {Some(m) : m \in MemberLists}

Ops == {"INSERT", "UPDATE", "DELETE", "TRUNCATE"}
Messages == {1, 2}
Listened == {"chat_updated", "chat_message_added", "chat_name_updated"}

\* a raw notification is (channel, payload); wellformed = the payload text
\* parses as the JSON type of its channel
ChatUpdatedPayloads ==
    [wellformed : {TRUE}, op : Ops, old : OptChats, new : OptChats,
     members : {<<>>}, message : {0}]
ChatMessageAddedPayloads ==
    [wellformed : {TRUE}, op : {""}, old : {None}, new : {None},
     members : MemberLists, message : Messages]
ChatNameUpdatedPayloads ==
    [wellformed : {TRUE}, op : {""}, old : {None}, new : {None},
     members : MemberLists, message : {0}]
Malformed ==
    [wellformed |-> FALSE, op |-> "", old |-> None, new |-> None,
     members |-> <<>>, message |-> 0]

\* a channel name the listener does not subscribe to, and the payloads of
\* any shape
UnknownChannel == "chat_deleted"
AnyPayloads ==
    {Malformed} \cup ChatUpdatedPayloads \cup ChatMessageAddedPayloads
        \cup ChatNameUpdatedPayloads

PayloadsOf(channel) ==
    {Malformed} \cup
    (CASE channel = "chat_updated" -> ChatUpdatedPayloads
       [] channel = "chat_message_added" -> ChatMessageAddedPayloads
       [] channel = "chat_name_updated" -> ChatNameUpdatedPayloads
       [] OTHER -> {})

\* AppEvent: the serde tag and the body of the variant
AppEvent(tag, members, message) ==
    [event |-> tag, members |-> members, message |-> message]
NoEvent == AppEvent("", <<>>, 0)

\* Results of Notification::load: Ok(Notification), Err(message), or a
\* panic raised by expect(message)
Ok(user_ids, event) ==
    [kind |-> "Ok", msg |-> "", user_ids |-> user_ids, event |-> event]
Err(msg) == [kind |-> "Err", msg |-> msg, user_ids |-> {}, event |-> NoEvent]
Panic(msg) == [kind |-> "Panic", msg |-> msg, user_ids |-> {}, event |-> NoEvent]
JsonError == "serde_json error"

\* the listener's local `notification`; arc is the identity of the
\* Arc<AppEvent> allocation shared by all recipients
Loaded(r, arc) ==
    [kind |-> r.kind, msg |-> r.msg, user_ids |-> r.user_ids,
     event |-> r.event, arc |-> arc]
NoNotification == Loaded(Ok({}, NoEvent), 0)

get_affected_chat_user_ids_always_union(old, new) ==
    CASE old.some /\ new.some -> ToSet(old.members) \cup ToSet(new.members)
      [] old.some /\ ~new.some -> ToSet(old.members)
      [] ~old.some /\ new.some -> ToSet(new.members)
      [] OTHER -> {}

get_affected_chat_user_ids_symmetric_difference(old, new) ==
    CASE old.some /\ new.some ->
            (ToSet(old.members) \ ToSet(new.members))
                \cup (ToSet(new.members) \ ToSet(old.members))
      [] old.some /\ ~new.some -> ToSet(old.members)
      [] ~old.some /\ new.some -> ToSet(new.members)
      [] OTHER -> {}

get_affected_chat_user_ids_drops_new_only(old, new) ==
    CASE old.some /\ new.some ->
            IF ToSet(old.members) = ToSet(new.members)
            THEN {}
            ELSE ToSet(old.members) \cup ToSet(new.members)
      [] old.some /\ ~new.some -> ToSet(old.members)
      [] OTHER -> {}

get_affected_chat_user_ids_drops_old_only(old, new) ==
    CASE old.some /\ new.some ->
            IF ToSet(old.members) = ToSet(new.members)
            THEN {}
            ELSE ToSet(old.members) \cup ToSet(new.members)
      [] ~old.some /\ new.some -> ToSet(new.members)
      [] OTHER -> {}

get_affected_chat_user_ids_empty_when_subset(old, new) ==
    CASE old.some /\ new.some ->
            IF ToSet(new.members) \subseteq ToSet(old.members)
            THEN {}
            ELSE ToSet(old.members) \cup ToSet(new.members)
      [] old.some /\ ~new.some -> ToSet(old.members)
      [] ~old.some /\ new.some -> ToSet(new.members)
      [] OTHER -> {}

get_affected_chat_user_ids_compares_lists(old, new) ==
    CASE old.some /\ new.some ->
            IF old.members = new.members
            THEN {}
            ELSE ToSet(old.members) \cup ToSet(new.members)
      [] old.some /\ ~new.some -> ToSet(old.members)
      [] ~old.some /\ new.some -> ToSet(new.members)
      [] OTHER -> {}

get_affected_chat_user_ids(old, new) ==
    CASE old.some /\ new.some ->
            LET old_user_ids == ToSet(old.members)
                new_user_ids == ToSet(new.members)
            IN  IF old_user_ids = new_user_ids
                THEN {}
                ELSE old_user_ids \cup new_user_ids
      [] old.some /\ ~new.some -> ToSet(old.members)
      [] ~old.some /\ new.some -> ToSet(new.members)
      [] OTHER -> {}

\* the default arm of the match on payload.op
UnknownOperationAsUpdate(payload) ==
    IF payload.new.some
    THEN Ok(get_affected_chat_user_ids(payload.old, payload.new),
            AppEvent("AddToChat", payload.new.members, 0))
    ELSE Err("Unknown operation")
UnknownOperation(payload) == Err("Unknown operation")

Load(type, payload) ==
    CASE type = "chat_name_updated" ->
            IF ~payload.wellformed THEN Err(JsonError)
            ELSE Ok(ToSet(payload.members),
                    AppEvent("ChatNameUpdated", payload.members, 0))
      [] type = "chat_updated" ->
            IF ~payload.wellformed THEN Err(JsonError)
            ELSE LET user_ids ==
                         get_affected_chat_user_ids(payload.old, payload.new)
                 IN  CASE payload.op = "INSERT" ->
                            IF payload.new.some
                            THEN Ok(user_ids,
                                    AppEvent("NewChat", payload.new.members, 0))
                            ELSE Panic("new should exist")
                       [] payload.op = "UPDATE" ->
                            IF payload.new.some
                            THEN Ok(user_ids,
                                    AppEvent("AddToChat", payload.new.members, 0))
                            ELSE Panic("new should exist")
                       [] payload.op = "DELETE" ->
                            IF payload.old.some
                            THEN Ok(user_ids,
                                    AppEvent("RemoveFromChat",
                                             payload.old.members, 0))
                            ELSE Panic("old should exist")
                       [] OTHER -> UnknownOperation(payload)
      [] type = "chat_message_added" ->
            IF ~payload.wellformed THEN Err(JsonError)
            ELSE Ok(ToSet(payload.members),
                    AppEvent("NewMessage", <<>>, payload.message))
      [] OTHER -> Err("Unknown notification type")

(* ------------------------- AppEvent as JSON --------------------------- *)
\* the events the decoder can build
ChatTags == {"NewChat", "AddToChat", "RemoveFromChat"}
AppEvents ==
    {AppEvent(tag, m, 0) : tag \in ChatTags, m \in MemberLists}
        \cup {AppEvent("NewMessage", <<>>, msg) : msg \in Messages}
        \cup {AppEvent("ChatNameUpdated", m, 0) : m \in MemberLists}

\* field names of the derived Serialize/Deserialize of the variants' bodies
ChatKeys == {"id", "ws_id", "name", "type", "members", "created_at"}
MessageKeys == {"id", "chat_id", "sender_id", "content", "files", "created_at"}
ChatNameUpdatedKeys == {"chat_id", "old_name", "new_name", "members"}

\* the JSON object of the body: the fields the model does not follow hold 0
BodyOf(e) ==
    CASE e.event \in ChatTags ->
            [k \in ChatKeys |-> IF k = "members" THEN e.members ELSE 0]
      [] e.event = "NewMessage" ->
            [k \in MessageKeys |-> IF k = "id" THEN e.message ELSE 0]
      [] OTHER ->
            [k \in ChatNameUpdatedKeys |-> IF k = "members" THEN e.members ELSE 0]

\* #[serde(tag = "event")]: the variant name is written under key "event"
\* next to the fields of the body
SerializeTagsByShape(e) ==
    ("event" :> (IF e.event \in ChatTags THEN "NewChat" ELSE e.event)) @@ BodyOf(e)
Serialize(e) == ("event" :> e.event) @@ BodyOf(e)

DeOk(e) == [ok |-> TRUE, value |-> e, msg |-> ""]
DeErr(msg) == [ok |-> FALSE, value |-> NoEvent, msg |-> msg]

\* the derived Deserialize reads the tag, then the body of that variant from
\* the other fields
Deserialize(j) ==
    IF "event" \notin DOMAIN j THEN DeErr("missing field event")
    ELSE LET tag == j["event"]
             keys == DOMAIN j \ {"event"}
         IN  CASE tag \in ChatTags ->
                    IF ChatKeys \subseteq keys
                    THEN DeOk(AppEvent(tag, j["members"], 0))
                    ELSE DeErr("missing field")
               [] tag = "NewMessage" ->
                    IF MessageKeys \subseteq keys
                    THEN DeOk(AppEvent(tag, <<>>, j["id"]))
                    ELSE DeErr("missing field")
               [] tag = "ChatNameUpdated" ->
                    IF ChatNameUpdatedKeys \subseteq keys
                    THEN DeOk(AppEvent(tag, j["members"], 0))
                    ELSE DeErr("missing field")
               [] OTHER -> DeErr("unknown variant")

\* a pure function applied to an input; NoProbe before the application
NoProbe ==
    [fn |-> "", channel |-> "", payload |-> Malformed, result |-> Err(""),
     value |-> NoEvent, json |-> <<>>, back |-> DeErr("")]

(* ------------------------ chat_server: values ------------------------- *)
Calls == 1..MaxCalls
Emails == 1..MaxEmail
WorkspaceNames == 1..MaxWorkspace

\* CreateUser: the fields User::create reads besides fullname and password
CreateUsers == [email : Emails, workspace : WorkspaceNames]

\* the Workspace value a call holds; owner_id 0 is a workspace without owner
NoWs == [id |-> 0, owner_id |-> 0]

\* AppError and its response: the status and ErrorOutput.error
NoError == [kind |-> "", email |-> 0]
EmailAlreadyExists(email) == [kind |-> "EmailAlreadyExists", email |-> email]
SqlxError == [kind |-> "SqlxError", email |-> 0]
to_string(err) ==
    IF err.kind = "EmailAlreadyExists"
    THEN <<"email already exists: ", err.email>>
    ELSE <<"sql error: ", 0>>
into_response(err) ==
    [status |-> IF err.kind = "EmailAlreadyExists" THEN 409 ELSE 500,
     error |-> to_string(err)]
Created == [status |-> 201, error |-> <<"", 0>>]

NoCall ==
    [pc |-> "none", email |-> 0, workspace |-> 0, ws |-> NoWs, user |-> 0,
     response |-> [status |-> NoResponse, error |-> <<"", 0>>]]

(* ------------------------------- state -------------------------------- *)
VARIABLES
    users,          \* UserMap: user id -> the Sender stored under it, or NoChan
    chanLog,        \* user id -> the channels created for it, each the sequence
                    \* of values sent on it, oldest first
    conn,           \* user id -> the connections opened for it, in order: each
                    \* with its channel, state, read position and relayed events
    dpc,            \* position of the listener task
    notification,   \* result of Notification::load for the notification in hand
    todo,           \* user_ids the for loop has not visited yet
    tx,             \* user whose Ref (shard read guard) the task holds, or NoUser
    nseq,           \* notifications the stream has yielded
    resp,           \* status of the response to the latest /events request
    probe,          \* a pure function applied to an input: the input and the value
    pg_workspaces,  \* chat_server: rows of table workspaces, the id is the index
    pg_users,       \* chat_server: rows of table users, the id is the index
    create          \* chat_server: signup request -> position and locals of its
                    \* User::create call

vars == <<users, chanLog, conn, dpc, notification, todo, tx, nseq, resp,
          probe, pg_workspaces, pg_users, create>>

listenerVars == <<dpc, notification, todo, tx, nseq>>
notifyVars == <<users, chanLog, conn, dpc, notification, todo, tx, nseq, resp>>
serverVars == <<pg_workspaces, pg_users, create>>

\* a Sender stored under u is named by the index of its channel in chanLog[u]
Init ==
    /\ users = [u \in Users |-> NoChan]
    /\ chanLog = [u \in Users |-> <<>>]
    /\ conn = [u \in Users |-> <<>>]
    /\ dpc = "idle"
    /\ notification = NoNotification
    /\ todo = {}
    /\ tx = NoUser
    /\ nseq = 0
    /\ resp = NoResponse
    /\ probe = NoProbe
    /\ pg_workspaces = <<>>
    /\ pg_users = <<>>
    /\ create = [c \in Calls |-> NoCall]

(* --------------------------- broadcast channel ------------------------ *)
\* the connections opened so far: <<u, k>> is the k-th connection of user u
Conns == {uk \in Users \X (1..MaxConn) : uk[2] <= Len(conn[uk[1]])}
ConnOf(c) == conn[c[1]][c[2]]
IsOpen(c) == ConnOf(c).st = "open"
OpenConns(u) == {c \in Conns : c[1] = u /\ IsOpen(c)}

\* receivers of channel ch of user u that have not been dropped
RxCount(u, ch) == Cardinality({c \in OpenConns(u) : ConnOf(c).chan = ch})

\* broadcast::Sender::send fails only when no receiver is left
SendFailsIfAnyDropped(u, ch) ==
    \/ RxCount(u, ch) = 0
    \/ \E c \in Conns : c[1] = u /\ ~IsOpen(c) /\ ConnOf(c).chan = ch
SendFails(u, ch) == RxCount(u, ch) = 0

\* unread values a receiver at position next has in a log of length len
Unread(len, next) == len - next + 1

\* broadcast::Sender::send is synchronous: it overwrites the oldest slot of
\* a full ring and never waits for a receiver
SendReadyWhenRoom(u, ch) ==
    \A c \in OpenConns(u) :
        ConnOf(c).chan = ch
            => Unread(Len(chanLog[u][ch]), ConnOf(c).next) < Capacity
SendReady(u, ch) == TRUE

ChanPushFront(log, v) == <<v>> \o log
ChanPush(log, v) == Append(log, v)

\* the value handed to the receivers of user_id: the Arc of the event, with
\* the record of whether the notification's user_ids held user_id
Sent(n, user_id) == [arc |-> n.arc, affected |-> user_id \in n.user_ids]

(* ------------------------------ registry ------------------------------ *)
ShardOf(u) == u % NumShards

\* the Ref returned by users.get lives to the end of the `if let` block, so
\* the task still holds the shard's read guard when it calls users.remove
HoldsRefDroppedEarly(u) == FALSE
HoldsRef(u) == tx # NoUser /\ ShardOf(tx) = ShardOf(u)

(* ---------------------------- listener task --------------------------- *)
\* the users the for loop iterates
ForUsersAll(n) == Users
ForUsers(n) == n.user_ids

\* the task is at stream.next() in the condition of the while let loop;
\* once the loop has ended the task has returned and polls nothing
AtStreamNextOrEnded == dpc \in {"idle", "done"}
AtStreamNext == dpc = "idle"

\* stream.next() yields Some(Ok(notif)); Notification::load(..).unwrap()
DispatchRecvOf(channel, payload) ==
    /\ AtStreamNext
    /\ nseq < MaxNotifs
    /\ nseq' = nseq + 1
    /\ LET r == Load(channel, payload) IN
         IF r.kind = "Ok"
         THEN /\ notification' = Loaded(r, nseq + 1)
              /\ todo' = ForUsers(r)
              /\ dpc' = "iter"
         ELSE /\ notification' = Loaded(r, 0)
              /\ dpc' = "panicked"
              /\ UNCHANGED todo
    /\ UNCHANGED <<users, chanLog, conn, tx, resp, probe, serverVars>>

DispatchRecv ==
    \E channel \in Listened : \E payload \in PayloadsOf(channel) :
        DispatchRecvOf(channel, payload)

\* the loop body handed a notification of any channel name
DispatchRecvAny ==
    \/ \E channel \in Listened : \E payload \in PayloadsOf(channel) :
          DispatchRecvOf(channel, payload)
    \/ \E payload \in AnyPayloads : DispatchRecvOf(UnknownChannel, payload)

\* stream.next() yields None or Some(Err(_)): the while let loop ends
StreamEnd ==
    /\ dpc = "idle"
    /\ dpc' = "done"
    /\ UNCHANGED <<users, chanLog, conn, notification, todo, tx, nseq, resp, probe, serverVars>>

\* next user_id of the for loop; users.get(&user_id)
DispatchGetInserts(user_id) ==
    /\ dpc = "iter"
    /\ user_id \in todo
    /\ todo' = todo \ {user_id}
    /\ IF users[user_id] # NoChan
       THEN /\ tx' = user_id /\ dpc' = "send"
            /\ UNCHANGED <<users, chanLog>>
       ELSE /\ chanLog' = [chanLog EXCEPT
                  ![user_id] = Append(@, <<Sent(notification, user_id)>>)]
            /\ users' = [users EXCEPT ![user_id] = Len(chanLog[user_id]) + 1]
            /\ UNCHANGED <<tx, dpc>>
    /\ UNCHANGED <<conn, notification, nseq, resp, probe, serverVars>>
DispatchGet(user_id) ==
    /\ dpc = "iter"
    /\ user_id \in todo
    /\ todo' = todo \ {user_id}
    /\ IF users[user_id] # NoChan
       THEN tx' = user_id /\ dpc' = "send"
       ELSE UNCHANGED <<tx, dpc>>
    /\ UNCHANGED <<users, chanLog, conn, notification, nseq, resp, probe, serverVars>>

\* the for loop is exhausted: back to stream.next()
DispatchLoopEnd ==
    /\ dpc = "iter"
    /\ todo = {}
    /\ dpc' = "idle"
    /\ notification' = NoNotification
    /\ UNCHANGED <<users, chanLog, conn, todo, tx, nseq, resp, probe, serverVars>>

\* tx.send(notification.event.clone())
DispatchSend ==
    /\ dpc = "send"
    /\ SendReady(tx, users[tx])
    /\ IF SendFails(tx, users[tx])
       THEN /\ dpc' = "remove"
            /\ UNCHANGED <<chanLog, tx>>
       ELSE /\ chanLog' = [chanLog EXCEPT
                  ![tx][users[tx]] = ChanPush(@, Sent(notification, tx))]
            /\ tx' = NoUser
            /\ dpc' = "iter"
    /\ UNCHANGED <<users, conn, notification, todo, nseq, resp, probe, serverVars>>

\* users.remove(&user_id) after a failed send: it needs the write lock of
\* the shard; with a read guard of that shard held by the caller itself it
\* waits for a release that can only follow its own return
DispatchRemove ==
    /\ dpc = "remove"
    /\ IF HoldsRef(tx)
       THEN /\ dpc' = "spin"
            /\ UNCHANGED <<users, tx>>
       ELSE /\ users' = [users EXCEPT ![tx] = NoChan]
            /\ tx' = NoUser
            /\ dpc' = "iter"
    /\ UNCHANGED <<chanLog, conn, notification, todo, nseq, resp, probe, serverVars>>

Listener ==
    \/ DispatchRecv
    \/ StreamEnd
    \/ \E user_id \in Users : DispatchGet(user_id)
    \/ DispatchLoopEnd
    \/ DispatchSend
    \/ DispatchRemove

(* ------------------------------ gateways ------------------------------ *)
NewConn(ch, next) == [chan |-> ch, st |-> "open", next |-> next, received |-> <<>>]

\* register(user_id): attach to the stored sender, or create and insert one
Register(u) ==
    /\ Cardinality(Conns) < MaxConn
    /\ IF users[u] # NoChan
       THEN /\ conn' = [conn EXCEPT ![u] =
                  Append(@, NewConn(users[u], Len(chanLog[u][users[u]]) + 1))]
            /\ UNCHANGED <<users, chanLog>>
       ELSE /\ ~HoldsRef(u)
            /\ chanLog' = [chanLog EXCEPT ![u] = Append(@, <<>>)]
            /\ users' = [users EXCEPT ![u] = Len(chanLog[u]) + 1]
            /\ conn' = [conn EXCEPT ![u] =
                  Append(@, NewConn(Len(chanLog[u]) + 1, 1))]
    /\ UNCHANGED listenerVars

\* Authorization header of a request: absent or unparseable (no bearer), or
\* a bearer token that names a user and does or does not verify
NoHeader == [bearer |-> FALSE, sub |-> NoUser, valid |-> FALSE]
Headers == {NoHeader} \cup [bearer : {TRUE}, sub : Users, valid : BOOLEAN]

\* TokenVerify::verify for AppState: the user of a token that verifies
Verify(h) == IF h.valid THEN [ok |-> TRUE, user |-> h.sub]
                        ELSE [ok |-> FALSE, user |-> NoUser]

\* verify_token: the status it answers itself, or next with the user
VerifyTokenTrustsClaims(h) ==
    IF ~h.bearer THEN [next |-> FALSE, status |-> 401, user |-> NoUser]
    ELSE [next |-> TRUE, status |-> 200, user |-> h.sub]
VerifyTokenForbidsMissing(h) ==
    IF ~h.bearer THEN [next |-> FALSE, status |-> 403, user |-> NoUser]
    ELSE IF Verify(h).ok
         THEN [next |-> TRUE, status |-> 200, user |-> Verify(h).user]
         ELSE [next |-> FALSE, status |-> 403, user |-> NoUser]
VerifyToken(h) ==
    IF ~h.bearer THEN [next |-> FALSE, status |-> 401, user |-> NoUser]
    ELSE IF Verify(h).ok
         THEN [next |-> TRUE, status |-> 200, user |-> Verify(h).user]
         ELSE [next |-> FALSE, status |-> 403, user |-> NoUser]

\* GET /events: the verify_token layer, then the gateway handler
EventsRequest(h) ==
    LET r == VerifyToken(h) IN
    /\ resp' = r.status
    /\ IF r.next
       THEN Register(r.user)
       ELSE UNCHANGED <<users, chanLog, conn, listenerVars>>
    /\ UNCHANGED <<probe, serverVars>>

\* the gateway loop relays the next event of its receiver to the client; a
\* receiver that lagged behind the ring resumes at the oldest retained value
GatewayRecv(c) ==
    /\ IsOpen(c)
    /\ LET log == chanLog[c[1]][ConnOf(c).chan]
           at == Max(ConnOf(c).next, Len(log) - Capacity + 1)
       IN  /\ at <= Len(log)
           /\ conn' = [conn EXCEPT
                  ![c[1]][c[2]].received = Append(@, log[at]),
                  ![c[1]][c[2]].next = at + 1]
    /\ UNCHANGED <<users, chanLog, listenerVars, resp, probe, serverVars>>

\* the client disconnects: the receiver is dropped
GatewayCloseDeregisters(c) ==
    /\ IsOpen(c)
    /\ conn' = [conn EXCEPT ![c[1]][c[2]].st = "closed"]
    /\ users' = IF RxCount(c[1], ConnOf(c).chan) = 1 /\ users[c[1]] = ConnOf(c).chan
                THEN [users EXCEPT ![c[1]] = NoChan]
                ELSE users
    /\ UNCHANGED <<chanLog, listenerVars, resp, probe, serverVars>>
GatewayClose(c) ==
    /\ IsOpen(c)
    /\ conn' = [conn EXCEPT ![c[1]][c[2]].st = "closed"]
    /\ UNCHANGED <<users, chanLog, listenerVars, resp, probe, serverVars>>

Gateway ==
    \/ \E h \in Headers : EventsRequest(h)
    \/ \E c \in Conns : GatewayRecv(c)
    \/ \E c \in Conns : GatewayClose(c)

Next == Listener \/ Gateway

Spec == Init /\ [][Next]_vars

\* the same system with a notification source that may name any channel
ListenerAny ==
    \/ DispatchRecvAny
    \/ StreamEnd
    \/ \E user_id \in Users : DispatchGet(user_id)
    \/ DispatchLoopEnd
    \/ DispatchSend
    \/ DispatchRemove

NextAnyChannel == ListenerAny \/ Gateway

SpecAnyChannel == Init /\ [][NextAnyChannel]_vars

(* --------------------------- pure functions --------------------------- *)
\* Notification::load applied to one raw notification
LoadProbe(channel, payload) ==
    /\ probe = NoProbe
    /\ probe' = [NoProbe EXCEPT !.fn = "load", !.channel = channel,
                                !.payload = payload,
                                !.result = Load(channel, payload)]
    /\ UNCHANGED <<notifyVars, serverVars>>

\* serde_json::to_value of an AppEvent, and serde_json::from_value of that
SerdeProbe(e) ==
    /\ probe = NoProbe
    /\ probe' = [NoProbe EXCEPT !.fn = "serde", !.value = e,
                                !.json = Serialize(e),
                                !.back = Deserialize(Serialize(e))]
    /\ UNCHANGED <<notifyVars, serverVars>>

NextPure ==
    \/ \E channel \in Listened : \E payload \in PayloadsOf(channel) :
          LoadProbe(channel, payload)
    \/ \E payload \in AnyPayloads : LoadProbe(UnknownChannel, payload)
    \/ \E e \in AppEvents : SerdeProbe(e)

SpecPure == Init /\ [][NextPure]_vars

(* ------------------------- chat_server: signup ------------------------ *)
EmailRows(email) == {i \in DOMAIN pg_users : pg_users[i].email = email}
NameRows(name) == {i \in DOMAIN pg_workspaces : pg_workspaces[i].name = name}

\* the call returns: signup_handler answers 201, or the error's response
Return(c, response) ==
    create' = [create EXCEPT ![c].pc = "done", ![c].response = response]

\* POST /api/signup: signup_handler calls User::create(&input, ..)
SignupRequest(c, input) ==
    /\ create[c].pc = "none"
    /\ create' = [create EXCEPT ![c].pc = "find_by_email",
                                ![c].email = input.email,
                                ![c].workspace = input.workspace]
    /\ UNCHANGED <<notifyVars, probe, pg_workspaces, pg_users>>

\* User::find_by_email and the early return
FindByEmail(c) ==
    /\ create[c].pc = "find_by_email"
    /\ IF EmailRows(create[c].email) # {}
       THEN Return(c, into_response(EmailAlreadyExists(create[c].email)))
       ELSE create' = [create EXCEPT ![c].pc = "find_by_name"]
    /\ UNCHANGED <<notifyVars, probe, pg_workspaces, pg_users>>

\* Workspace::find_by_name: Some(ws) with the row as it is now, or None
FindByName(c) ==
    /\ create[c].pc = "find_by_name"
    /\ IF NameRows(create[c].workspace) # {}
       THEN \E i \in NameRows(create[c].workspace) :
               create' = [create EXCEPT
                   ![c].pc = "insert",
                   ![c].ws = [id |-> i, owner_id |-> pg_workspaces[i].owner_id]]
       ELSE create' = [create EXCEPT ![c].pc = "create_ws"]
    /\ UNCHANGED <<notifyVars, probe, pg_workspaces, pg_users>>

\* Workspace::create(name, 0, pool). The schema is not part of the sources:
\* with a unique constraint on the name a second row of that name is an
\* sqlx error, without one it is inserted
WorkspaceCreate(c) ==
    /\ create[c].pc = "create_ws"
    /\ \/ /\ pg_workspaces' =
                Append(pg_workspaces, [name |-> create[c].workspace, owner_id |-> 0])
          /\ create' = [create EXCEPT
                ![c].pc = "insert",
                ![c].ws = [id |-> Len(pg_workspaces) + 1, owner_id |-> 0]]
       \/ /\ NameRows(create[c].workspace) # {}
          /\ Return(c, into_response(SqlxError))
          /\ UNCHANGED pg_workspaces
    /\ UNCHANGED <<notifyVars, probe, pg_users>>

\* insert into users .. returning ..; then the test of ws.owner_id. With a
\* unique constraint on the email a second row of that email is an sqlx
\* error, without one it is inserted
InsertUser(c) ==
    /\ create[c].pc = "insert"
    /\ \/ /\ pg_users' =
                Append(pg_users, [email |-> create[c].email, ws_id |-> create[c].ws.id])
          /\ IF create[c].ws.owner_id = 0
             THEN create' = [create EXCEPT ![c].pc = "update_owner",
                                           ![c].user = Len(pg_users) + 1]
             ELSE create' = [create EXCEPT ![c].pc = "done",
                                           ![c].user = Len(pg_users) + 1,
                                           ![c].response = Created]
       \/ /\ EmailRows(create[c].email) # {}
          /\ Return(c, into_response(SqlxError))
          /\ UNCHANGED pg_users
    /\ UNCHANGED <<notifyVars, probe, pg_workspaces>>

\* ws.update_owner(user.id): update workspaces set owner_id = $1 where
\* id = $2 and (select ws_id from users where id = $1) = $2
UpdateOwner(c) ==
    /\ create[c].pc = "update_owner"
    /\ LET id == create[c].ws.id
           owner_id == create[c].user
       IN  IF pg_users[owner_id].ws_id = id
           THEN /\ pg_workspaces' = [pg_workspaces EXCEPT ![id].owner_id = owner_id]
                /\ Return(c, Created)
           ELSE /\ Return(c, into_response(SqlxError))
                /\ UNCHANGED pg_workspaces
    /\ UNCHANGED <<notifyVars, probe, pg_users>>

NextSignup ==
    \/ \E c \in Calls : \E input \in CreateUsers : SignupRequest(c, input)
    \/ \E c \in Calls : FindByEmail(c)
    \/ \E c \in Calls : FindByName(c)
    \/ \E c \in Calls : WorkspaceCreate(c)
    \/ \E c \in Calls : InsertUser(c)
    \/ \E c \in Calls : UpdateOwner(c)

SpecSignup == Init /\ [][NextSignup]_vars

(* ------------------------------ properties ---------------------------- *)
InLoop == {"iter", "send", "remove", "spin"}
Received(c) == ConnOf(c).received

\* C1: every event relayed to a connection of user u comes from a
\* notification whose computed user_ids contained u; a user outside the
\* user_ids of a notification never receives its event.
C1_DeliveredOnlyToAffected ==
    \A c \in Conns : \A i \in DOMAIN Received(c) : Received(c)[i].affected

\* an event was relayed to a user while another user, outside the user_ids of
\* that notification, was connected too: the listener goes on to the next
\* notification, addressed to that other user, who has none of its events
C1_Witness ==
    \E c \in Conns, d \in Conns :
        /\ Len(Received(c)) = 1
        /\ IsOpen(d) /\ d[1] # c[1]
        /\ chanLog[d[1]][ConnOf(d).chan] = <<>>
        /\ dpc = "iter" /\ todo = {d[1]}

\* C2: a malformed payload on a listened channel is dropped and the listener
\* loop goes on: the task is never ended by a JSON decode error.
C2_MalformedIsDropped ==
    ~(dpc = "panicked" /\ notification.kind = "Err" /\ notification.msg = JsonError)

\* C3: after a failed send to u the listener removes u's entry and goes on;
\* inside the loop it always has a step to take, it never waits forever.
C3_NeverWaitsForever ==
    dpc \in InLoop => ENABLED Listener

\* C4: a stale entry survives at most one failed send: the step the listener
\* takes after a failed send to u leaves the registry without an entry for u.
C4_StaleEntryRemoved ==
    [][(dpc = "remove" /\ dpc' # "remove") => users'[tx] = NoChan]_vars

\* C5: a failed send to u does not keep the event from v: the listener never
\* comes to a halt inside the loop while a user with a connected receiver is
\* still to be visited.
C5_FailedSendDoesNotStopOthers ==
    ~(/\ dpc \in InLoop
      /\ ~ENABLED Listener
      /\ \E v \in todo : users[v] # NoChan /\ RxCount(v, users[v]) > 0)

C7_FanOutSurvivesClose ==
    [][/\ (dpc = "send" /\ dpc' # "send" /\ OpenConns(tx) # {}) =>
            /\ dpc' = "iter"
            /\ users' = users
            /\ \A c \in OpenConns(tx) :
                 LET log == chanLog'[tx][ConnOf(c).chan] IN
                  /\ log # <<>>
                  /\ Last(log).arc = notification.arc
                  /\ ConnOf(c).next <= Len(log)
       /\ (\E c \in Conns : IsOpen(c) /\ conn'[c[1]][c[2]].st = "closed") =>
            /\ users' = users
            /\ chanLog' = chanLog
      ]_vars

\* two connections of one user received the first event, one of them closed,
\* the other one received the second event and the entry is still there
C7_Witness ==
    \E c \in Conns, d \in Conns :
        /\ c[1] = d[1]
        /\ ~IsOpen(c) /\ Len(Received(c)) = 1 /\ Received(c)[1].arc = 1
        /\ IsOpen(d) /\ Len(Received(d)) = 2 /\ Received(d)[2].arc = 2
        /\ users[d[1]] = ConnOf(d).chan

C9_SendNeverBlocks ==
    (dpc = "send" /\ OpenConns(tx) # {}) =>
        ENABLED (/\ DispatchSend
                 /\ dpc' = "iter"
                 /\ Last(chanLog'[tx][users[tx]]).arc = notification.arc)

\* the listener is about to send to a user one of whose connected receivers
\* has a full buffer of unread events
C9_Witness ==
    /\ dpc = "send"
    /\ \E c \in OpenConns(tx) :
          /\ ConnOf(c).chan = users[tx]
          /\ Unread(Len(chanLog[tx][users[tx]]), ConnOf(c).next) >= Capacity

\* chat_updated payloads with op UPDATE whose old and new member-id sets are equal
NoOpUpdates ==
    {[wellformed |-> TRUE, op |-> "UPDATE", old |-> Some(on[1]), new |-> Some(on[2]),
      members |-> <<>>, message |-> 0] :
        on \in {m \in MemberLists \X MemberLists : ToSet(m[1]) = ToSet(m[2])}}

\* C10: for a chat_updated UPDATE with equal old and new member-id sets the
\* affected set is empty, and the listener's only step for it ends the for
\* loop without a send and without a registry change.
C10_NoOpUpdateDispatchesNothing ==
    [][/\ (dpc = "idle" /\ dpc' # "idle") =>
            \A p \in NoOpUpdates :
                DispatchRecvOf("chat_updated", p) =>
                    /\ notification'.user_ids = {}
                    /\ dpc' = "iter" /\ todo' = {}
       /\ (dpc = "iter" /\ todo = {} /\ dpc' # "iter") =>
            /\ dpc' = "idle"
            /\ UNCHANGED <<users, chanLog>>
      ]_vars

\* the listener holds an AddToChat event with an empty affected set while a
\* member of the chat is connected
C10_Witness ==
    /\ dpc = "iter"
    /\ notification.event.event = "AddToChat"
    /\ notification.user_ids = {}
    /\ \E c \in Conns : IsOpen(c) /\ c[1] \in ToSet(notification.event.members)

\* the listener takes a notification from the stream
TakesNotification == dpc = "idle" /\ dpc' \notin {"idle", "done"}
ChatUpdatedOf(op) == {p \in ChatUpdatedPayloads : p.op = op}

\* C11: for a chat_updated UPDATE whose old and new member-id sets differ the
\* event is AddToChat(new) and the affected set is the union of both sets:
\* removed and added members are both among the users the loop visits.
C11_UpdateNotifiesUnion ==
    [][TakesNotification =>
        \A p \in ChatUpdatedOf("UPDATE") :
            (/\ p.old.some /\ p.new.some
             /\ ToSet(p.old.members) # ToSet(p.new.members)
             /\ DispatchRecvOf("chat_updated", p)) =>
                /\ notification'.kind = "Ok"
                /\ notification'.event = AppEvent("AddToChat", p.new.members, 0)
                /\ notification'.user_ids =
                       ToSet(p.old.members) \cup ToSet(p.new.members)
                /\ todo' = notification'.user_ids
      ]_vars

\* the listener holds an AddToChat event whose affected set has a user that
\* is no member of the new chat (a removed member) and a member of it
C11_Witness ==
    /\ dpc = "iter"
    /\ notification.event.event = "AddToChat"
    /\ todo = notification.user_ids
    /\ notification.user_ids \ ToSet(notification.event.members) # {}
    /\ notification.user_ids \cap ToSet(notification.event.members) # {}

LogsKept == \A u \in Users : \A g \in DOMAIN chanLog[u] : chanLog'[u][g] = chanLog[u][g]

\* C14: for a chat_message_added notification with member list M the event
\* is NewMessage(message), the affected set is the set of ids in M, and
\* every connected user of M gets that one event: the listener does not come
\* to a halt while a connected member is still to be visited.
C14_MessageReachesAllMembers ==
    [][/\ TakesNotification =>
            \A p \in ChatMessageAddedPayloads :
                DispatchRecvOf("chat_message_added", p) =>
                    /\ notification'.event = AppEvent("NewMessage", <<>>, p.message)
                    /\ notification'.user_ids = ToSet(p.members)
                    /\ todo' = ToSet(p.members)
       /\ (notification.event.event = "NewMessage" /\ dpc \in InLoop) =>
            \/ ENABLED Listener
            \/ \A v \in todo : OpenConns(v) = {}
      ]_vars

\* C15: a chat_updated notification that lacks the field its op requires is
\* dropped and the listener goes on: the task is never ended by the missing
\* field.
C15_MissingFieldIsDropped ==
    ~(dpc = "panicked" /\ notification.kind = "Panic")

C17_UnknownOpSendsNothing ==
    [][/\ TakesNotification =>
            \A p \in ChatUpdatedPayloads :
                (/\ p.op \notin {"INSERT", "UPDATE", "DELETE"}
                 /\ DispatchRecvOf("chat_updated", p)) =>
                    /\ notification'.kind = "Err"
                    /\ notification'.msg = "Unknown operation"
                    /\ todo' = todo
                    /\ LogsKept
       /\ notification.msg = "Unknown operation" =>
            /\ notification' = notification
            /\ LogsKept
      ]_vars

\* an unknown op was taken while a user was connected
C17_Witness ==
    /\ notification.kind = "Err"
    /\ notification.msg = "Unknown operation"
    /\ \E c \in Conns : IsOpen(c)

\* C18: a request to /events whose bearer token is missing or does not
\* verify is answered by the verify_token layer and leaves the registry, the
\* channels and the receivers as they were.
C18_RejectedBeforeRegistry ==
    [][\A h \in Headers :
          ((~h.bearer \/ ~h.valid) /\ EventsRequest(h)) =>
              /\ resp' \in {401, 403}
              /\ UNCHANGED <<users, chanLog, conn>>
      ]_vars

\* a request was rejected while the registry was empty and a connection
\* could have been opened
C18_Witness ==
    /\ resp \in {401, 403}
    /\ Cardinality(Conns) < MaxConn
    /\ \A u \in Users : users[u] = NoChan

\* C19: once the stream has yielded an error or ended the listener task is
\* over: it takes no further notification, sends nothing and changes no
\* registry entry, whatever arrives afterwards.
C19_EndedListenerStaysEnded ==
    [][dpc = "done" =>
          /\ UNCHANGED listenerVars
          /\ LogsKept
          /\ \A u \in Users : users[u] # NoChan => users'[u] = users[u]
      ]_vars

\* the listener has ended with notifications still to come and a user
\* connected
C19_Witness ==
    /\ dpc = "done"
    /\ nseq < MaxNotifs
    /\ \E c \in Conns : IsOpen(c)

\* C20: closing a connection releases its receiver and leaves the registry
\* unchanged; an entry leaves the registry only in the listener's removal
\* after a failed send to that user.
C20_CloseKeepsEntry ==
    [][/\ \A c \in Conns :
            (IsOpen(c) /\ conn'[c[1]][c[2]].st = "closed") =>
                /\ users' = users
                /\ RxCount(c[1], ConnOf(c).chan)' = RxCount(c[1], ConnOf(c).chan) - 1
       /\ \A u \in Users :
            (users[u] # NoChan /\ users'[u] = NoChan) => (dpc = "remove" /\ tx = u)
      ]_vars

\* the last connection of a user is closed and the entry is still there
C20_Witness ==
    \E c \in Conns :
        /\ ~IsOpen(c)
        /\ OpenConns(c[1]) = {}
        /\ users[c[1]] = ConnOf(c).chan

MemberIds(opt) == IF opt.some THEN ToSet(opt.members) ELSE {}
DecodedChatUpdate ==
    /\ probe.fn = "load"
    /\ probe.channel = "chat_updated"
    /\ probe.result.kind = "Ok"

\* C22 as stated: for a chat_updated notification that decodes, the affected
\* set is empty only when old and new are both there with identical member-id
\* sets, and non-empty in every other case.
C22_EmptyOnlyWhenIdentical ==
    DecodedChatUpdate =>
        (probe.result.user_ids = {} <=>
            /\ probe.payload.old.some /\ probe.payload.new.some
            /\ ToSet(probe.payload.old.members) = ToSet(probe.payload.new.members))

\* C22 amended: for a chat_updated notification that decodes, the affected
\* set is empty exactly when the member-id sets of old and new are equal, an
\* absent old or new counting as the empty set.
C22_EmptyOnlyWhenIdsEqual ==
    DecodedChatUpdate =>
        (probe.result.user_ids = {} <=>
            MemberIds(probe.payload.old) = MemberIds(probe.payload.new))

\* a notification with only one of old and new, whose chat has no members,
\* decoded to an empty affected set
C22_Witness ==
    /\ DecodedChatUpdate
    /\ probe.payload.old.some # probe.payload.new.some
    /\ probe.result.user_ids = {}

\* C23: for a chat_updated UPDATE whose old and new member lists hold the
\* same ids, in whatever order and multiplicity, the affected set is empty
\* and the for loop of the listener has no user to visit.
C23_DiffIgnoresOrderAndMultiplicity ==
    (/\ probe.fn = "load"
     /\ probe.channel = "chat_updated"
     /\ probe.payload.wellformed
     /\ probe.payload.op = "UPDATE"
     /\ probe.payload.old.some /\ probe.payload.new.some
     /\ ToSet(probe.payload.old.members) = ToSet(probe.payload.new.members)) =>
        /\ probe.result.kind = "Ok"
        /\ probe.result.user_ids = {}
        /\ ForUsers(probe.result) = {}

\* an UPDATE whose new member list is the old one in another order was
\* decoded to an empty affected set
C23_Witness ==
    /\ probe.fn = "load"
    /\ probe.payload.op = "UPDATE"
    /\ probe.payload.old.some /\ probe.payload.new.some
    /\ Len(probe.payload.old.members) = 2
    /\ probe.payload.old.members[1] # probe.payload.old.members[2]
    /\ probe.payload.new.members =
           <<probe.payload.old.members[2], probe.payload.old.members[1]>>
    /\ probe.result.kind = "Ok"
    /\ probe.result.user_ids = {}

\* C24: verify_token answers 401 for a missing or unparseable bearer header
\* and 403 for a token that fails verification, in both cases without running
\* the next handler; for a token that verifies it runs the next handler once,
\* for the user of the token.
C24_VerifyTokenStatuses ==
    [][\A h \in Headers :
          EventsRequest(h) =>
              /\ ~h.bearer => (resp' = 401 /\ conn' = conn /\ users' = users)
              /\ (h.bearer /\ ~h.valid) =>
                     (resp' = 403 /\ conn' = conn /\ users' = users)
              /\ (h.bearer /\ h.valid) =>
                     /\ resp' = 200
                     /\ Len(conn'[h.sub]) = Len(conn[h.sub]) + 1
                     /\ \A u \in Users \ {h.sub} : conn'[u] = conn[u]
      ]_vars

\* the next handler ran for a verified user after a request had been
\* answered and more connections could have been opened
C24_Witness ==
    /\ resp = 200
    /\ Cardinality(Conns) = 1
    /\ \E c \in Conns : IsOpen(c) /\ users[c[1]] = ConnOf(c).chan

Answered == {c \in Calls : create[c].pc = "done"}

\* C26: of the User::create calls with one email, however they interleave,
\* at most one succeeds; every other one is answered 409 with the message
\* 'email already exists: <email>', and the email has at most one user row.
C26_OneCreatePerEmail ==
    /\ \A c \in Answered : \A d \in Answered \ {c} :
          (create[c].email = create[d].email /\ create[c].response.status = 201) =>
              create[d].response = into_response(EmailAlreadyExists(create[d].email))
    /\ \A email \in Emails : Cardinality(EmailRows(email)) <= 1

\* C27: the listener's cleanup after a failed send never removes an entry
\* that has a live receiver: when a gateway has attached to the sender since
\* the failed send, the step after it leaves the entry in place and the
\* listener goes on with its loop, so that later events reach that gateway.
C27_CleanupSparesLiveReceiver ==
    [][(dpc = "remove" /\ dpc' # "remove" /\ RxCount(tx, users[tx]) > 0) =>
          /\ users'[tx] = users[tx]
          /\ dpc' = "iter"
      ]_vars

\* C28: the listener never adds a registry entry: a new entry comes with a
\* registration, with an empty channel, and visiting an affected user without
\* entry leaves registry, channels and receivers as they were, so a later
\* registration finds nothing of what was dispatched before it.
C28_ListenerNeverRegisters ==
    [][/\ \A u \in Users :
            (users[u] = NoChan /\ users'[u] # NoChan) =>
                /\ UNCHANGED listenerVars
                /\ chanLog'[u][users'[u]] = <<>>
                /\ Last(conn'[u]).chan = users'[u]
                /\ Last(conn'[u]).next = 1
       /\ \A u \in Users :
            (dpc = "iter" /\ u \in todo /\ u \notin todo' /\ users[u] = NoChan) =>
                /\ UNCHANGED <<users, chanLog, conn>>
                /\ dpc' = "iter"
      ]_vars

\* an affected user was visited without an entry and registered afterwards:
\* its only channel is empty and its receiver has nothing
C28_Witness ==
    \E u \in Users :
        /\ dpc = "iter"
        /\ u \in notification.user_ids \ todo
        /\ Len(chanLog[u]) = 1
        /\ chanLog[u][1] = <<>>
        /\ \E c \in OpenConns(u) : Received(c) = <<>>

\* C29: a User::create call that returns a user leaves the user in the
\* workspace it held, as owner exactly when that workspace had owner_id 0 in
\* the call's eyes; and a workspace that has an owner keeps that owner.
C29_OwnerSetOnce ==
    [][/\ \A c \in Calls :
            (/\ create[c].pc # "done" /\ create'[c].pc = "done"
             /\ create'[c].response.status = 201) =>
                /\ pg_users'[create'[c].user].ws_id = create[c].ws.id
                /\ create[c].ws.owner_id = 0 =>
                       pg_workspaces'[create[c].ws.id].owner_id = create'[c].user
                /\ create[c].ws.owner_id # 0 => pg_workspaces' = pg_workspaces
       /\ \A w \in DOMAIN pg_workspaces :
            pg_workspaces[w].owner_id # 0 =>
                pg_workspaces'[w].owner_id = pg_workspaces[w].owner_id
      ]_vars

====
